---- MODULE Spec2Model ----
(***************************************************************************)
(* Model of the elevator simulator in src/src/App.tsx: the React state of  *)
(* the App component, the two refs (elevatorQueue, isProcessing), the      *)
(* event handlers and the async processQueue coroutine.                    *)
(*                                                                         *)
(* JavaScript runs every handler and every stretch of processQueue        *)
(* between two awaits to completion, so each of them is one action.        *)
(* processQueue is a useCallback closure: each run reads currentFloor and  *)
(* isDoorOpen as they were when the run was started (the values captured   *)
(* by the closure), never the later values of the React state.  A handler  *)
(* reads the state of the latest render, i.e. the current state.           *)
(*                                                                         *)
(* Operations are written as functions from a state record to a state      *)
(* record; an action applies one of them to the current state.  The field  *)
(* out of the record holds the cues the operation has played.              *)
(***************************************************************************)
EXTENDS Integers, Sequences, FiniteSets, TLC

VARIABLES currentFloor, targetFloor, isMoving, isDoorOpen, selectedFloors,
          direction, outsideFloor, elevatorQueue, isProcessing,
          procs, phase, log

vars == <<currentFloor, targetFloor, isMoving, isDoorOpen, selectedFloors,
          direction, outsideFloor, elevatorQueue, isProcessing,
          procs, phase, log>>

\* ------------------------------------------------------------------ bounds
\* Floors the user presses are the first NumInputFloors of FLOORS.
NumInputFloors == 2
\* An input that would make elevatorQueue longer than MaxQueue is not given.
MaxQueue == 2
\* The log follows a run for as long as the user has given at most
\* MaxLogInputs inputs, the one that started the run included.
MaxLogInputs == 2

\* --------------------------------------------------------------- constants
NULL == "null"

FLOORS == <<"B2", "B1", "F1", "F2", "F3", "F4", "F5", "F6", "F7", "F8", "F9", "F10">>

InputFloors == {FLOORS[i] : i \in 1..NumInputFloors}

Directions == {"up", "down"}

\* FLOORS.indexOf(floor), 0-based as in the source.
getFloorIndex(floor) == (CHOOSE i \in 1..Len(FLOORS) : FLOORS[i] = floor) - 1

\* Array.prototype.slice(a, b) for 0 <= a, 0 <= b: elements a .. b-1.
slice(s, a, b) == SubSeq(s, a + 1, IF b > Len(s) THEN Len(s) ELSE b)

\* Array.prototype.reverse()
reverse(s) == [i \in 1..Len(s) |-> s[Len(s) + 1 - i]]

\* ------------------------------------------------------------------- state
State ==
  [currentFloor |-> currentFloor, targetFloor |-> targetFloor,
   isMoving |-> isMoving, isDoorOpen |-> isDoorOpen,
   selectedFloors |-> selectedFloors, direction |-> direction,
   outsideFloor |-> outsideFloor, elevatorQueue |-> elevatorQueue,
   isProcessing |-> isProcessing, procs |-> procs,
   out |-> <<>>, phase |-> phase, log |-> log]

Apply(s) ==
  /\ currentFloor' = s.currentFloor
  /\ targetFloor' = s.targetFloor
  /\ isMoving' = s.isMoving
  /\ isDoorOpen' = s.isDoorOpen
  /\ selectedFloors' = s.selectedFloors
  /\ direction' = s.direction
  /\ outsideFloor' = s.outsideFloor
  /\ elevatorQueue' = s.elevatorQueue
  /\ isProcessing' = s.isProcessing
  /\ procs' = s.procs
  /\ phase' = s.phase
  /\ log' = s.log

\* ---------------------------------------------------- inputs and cues
\* out holds the cues an operation has played (by = "run": played by a
\* processQueue run, by = "user": played by a handler).
\* log records, in order, the user inputs (by = "in") and the cues played by
\* the runs.  With no run in progress it holds the last input; when a run
\* starts, the idle state the run starts from is put in front, and the log
\* follows the run until the user gives one input more than MaxLogInputs, the
\* one that started the run included, or gives one after the run has ended.
\* A log that is no longer followed is <<>>.
Entry(k, a, by) == [k |-> k, a |-> a, by |-> by]

Inputs(l) == SelectSeq(l, LAMBDA e : e.by = "in" /\ e.k \notin {"idle_open", "idle_closed"})

Cues(l) == SelectSeq(l, LAMBDA e : e.by = "run")

Record(l, e) == IF l = <<>> THEN l ELSE Append(l, e)

\* A handler is entered: nothing played yet.
Enter(s, k, a) ==
  [s EXCEPT !.out = <<>>,
            !.log = IF ~s.isProcessing THEN <<Entry(k, a, "in")>>
                    ELSE IF Len(Inputs(@)) >= MaxLogInputs THEN <<>>
                    ELSE Record(@, Entry(k, a, "in"))]

\* A timer elapses: nothing played yet.
Wake(s) == [s EXCEPT !.out = <<>>]

\* phase follows the cues the runs play.  The cues of one trip are
\* [door_closed] direction_changed floor_passed* floor_arrived door_opened;
\* phase is "mixed" once a cue has been played out of this order.
TripStep(ph, k) ==
  CASE ph = "idle" /\ k = "door_closed" -> "closed"
    [] ph \in {"idle", "closed"} /\ k = "direction_changed" -> "announced"
    [] ph \in {"announced", "passing"} /\ k = "floor_passed" -> "passing"
    [] ph \in {"announced", "passing"} /\ k = "floor_arrived" -> "arrived"
    [] ph = "arrived" /\ k = "door_opened" -> "idle"
    [] OTHER -> "mixed"

Emit(s, k, a, by) ==
  [s EXCEPT !.out = Append(@, Entry(k, a, by)),
            !.phase = IF by = "run" THEN TripStep(@, k) ELSE @,
            !.log = IF by = "run" THEN Record(@, Entry(k, a, by)) ELSE @]

\* playAudio('door_open' | 'door_close')
announceDoor(s, action, by) ==
  Emit(s, IF action = "open" THEN "door_opened" ELSE "door_closed", NULL, by)

\* playAudio('going_up' | 'going_down')
announceDirection(s, dir, by) == Emit(s, "direction_changed", dir, by)

\* playAudio('arrive_<floor>')
announceArrival(s, floor, by) == Emit(s, "floor_arrived", floor, by)

\* ------------------------------------------------------------ processQueue
\* One frame per processQueue run in progress.  currentFloor and isDoorOpen
\* are the values the closure captured; target, dir and floorsToPass are the
\* run's locals (floorsToPass holds the floors the for loop has yet to visit).
Frame(s) ==
  [pc |-> "start", currentFloor |-> s.currentFloor, isDoorOpen |-> s.isDoorOpen,
   target |-> NULL, dir |-> NULL, floorsToPass |-> <<>>]

\* lines 128-136: direction from the captured currentFloor, then delay(1000)
determineDirection(s, i) ==
  LET currentIdx == getFloorIndex(s.procs[i].currentFloor)
      targetIdx == getFloorIndex(s.procs[i].target)
      dir == IF targetIdx > currentIdx THEN "up" ELSE "down"
      s1 == [s EXCEPT !.direction = dir, !.procs[i].dir = dir,
                      !.procs[i].pc = "announced"]
  IN announceDirection(s1, dir, "run")

\* lines 117-126: loop head, target acquisition, door close and delay(1500)
acquireTarget(s, i) ==
  LET target == Head(s.elevatorQueue)
      s1 == [s EXCEPT !.elevatorQueue = Tail(@), !.targetFloor = target,
                      !.procs[i].target = target, !.procs[i].dir = NULL]
  IN IF s1.procs[i].isDoorOpen
     THEN announceDoor([s1 EXCEPT !.isDoorOpen = FALSE, !.procs[i].pc = "closing"],
                       "close", "run")
     ELSE determineDirection(s1, i)

\* arrive with setIsMoving(false) left out
arrive_keepsMoving(s, i) ==
  announceArrival([s EXCEPT !.direction = NULL, !.procs[i].pc = "arrived"],
                  s.procs[i].target, "run")

\* arrive with setDirection(null) left out
arrive_keepsDirection(s, i) ==
  announceArrival([s EXCEPT !.isMoving = FALSE, !.procs[i].pc = "arrived"],
                  s.procs[i].target, "run")

\* lines 152-157: arrival, then delay(500)
arrive(s, i) ==
  announceArrival([s EXCEPT !.isMoving = FALSE, !.direction = NULL,
                            !.procs[i].pc = "arrived"],
                  s.procs[i].target, "run")

\* floorsToPass with the reverse() of the way down left out
floorsToPass_noReverse(dir, currentIdx, targetIdx) ==
  IF dir = "up"
  THEN slice(FLOORS, currentIdx + 1, targetIdx + 1)
  ELSE slice(FLOORS, targetIdx, currentIdx)

\* floorsToPass that stops one floor short of the target
floorsToPass_shortOfTarget(dir, currentIdx, targetIdx) ==
  IF dir = "up"
  THEN slice(FLOORS, currentIdx + 1, targetIdx)
  ELSE reverse(slice(FLOORS, targetIdx + 1, currentIdx))

\* lines 142-144
floorsToPass(dir, currentIdx, targetIdx) ==
  IF dir = "up"
  THEN slice(FLOORS, currentIdx + 1, targetIdx + 1)
  ELSE reverse(slice(FLOORS, targetIdx, currentIdx))

\* lines 138-147: start moving; the for loop's first delay(1200), or arrival
\* at once when there is no floor to pass
startMoving(s, i) ==
  LET currentIdx == getFloorIndex(s.procs[i].currentFloor)
      targetIdx == getFloorIndex(s.procs[i].target)
      ftp == floorsToPass(s.procs[i].dir, currentIdx, targetIdx)
      s1 == [s EXCEPT !.isMoving = TRUE, !.procs[i].floorsToPass = ftp,
                      !.procs[i].pc = "travel"]
  IN IF ftp = <<>> THEN arrive(s1, i) ELSE s1

\* lines 146-150: one iteration of the for loop after its delay(1200)
passFloor(s, i) ==
  LET floor == Head(s.procs[i].floorsToPass)
      s1 == Emit([s EXCEPT !.currentFloor = floor,
                           !.procs[i].floorsToPass = Tail(@)],
                 "floor_passed", floor, "run")
  IN IF s1.procs[i].floorsToPass = <<>> THEN arrive(s1, i) ELSE s1

\* lines 159-170: door open, deselect the target, delay(2000)
openDoor(s, i) ==
  announceDoor([s EXCEPT !.isDoorOpen = TRUE,
                         !.selectedFloors = @ \ {s.procs[i].target},
                         !.procs[i].pc = "settle"],
               "open", "run")

\* lines 173-174: the run ends
finish(s, i) ==
  [s EXCEPT !.isProcessing = FALSE, !.targetFloor = NULL,
            !.procs = SubSeq(@, 1, i - 1) \o SubSeq(@, i + 1, Len(@))]

\* nextTrip without the while loop: the run ends after one trip
nextTrip_once(s, i) == finish(s, i)

\* line 117 after delay(2000): next trip or end of the run
nextTrip(s, i) ==
  IF Len(s.elevatorQueue) > 0 THEN acquireTarget(s, i) ELSE finish(s, i)

\* The idle state a run starts from, as the first entry of its log.
StartEntry(s) ==
  Entry(IF s.isDoorOpen THEN "idle_open" ELSE "idle_closed", s.currentFloor, "in")

\* processQueue with isProcessing.current = true left out
processQueue_noFlag(s) ==
  IF s.isProcessing \/ Len(s.elevatorQueue) = 0
  THEN s
  ELSE LET s1 == [s EXCEPT !.procs = Append(@, Frame(s)),
                           !.log = <<StartEntry(s)>> \o @]
       IN acquireTarget(s1, Len(s1.procs))

\* lines 112-126: the call of processQueue up to its first await
processQueue(s) ==
  IF s.isProcessing \/ Len(s.elevatorQueue) = 0
  THEN s
  ELSE LET s1 == [s EXCEPT !.isProcessing = TRUE,
                           !.procs = Append(@, Frame(s)),
                           !.log = <<StartEntry(s)>> \o @]
       IN acquireTarget(s1, Len(s1.procs))

\* ---------------------------------------------------------------- handlers
\* handleFloorSelect without the selectedFloors.has(floor) test
handleFloorSelect_noDedup(s, floor) ==
  LET s0 == Enter(s, "select", floor)
  IN IF floor = s.currentFloor /\ ~s.isMoving /\ s.isDoorOpen
     THEN s0
     ELSE LET s1 == [s0 EXCEPT !.selectedFloors = @ \cup {floor},
                               !.elevatorQueue = Append(@, floor)]
          IN IF ~s1.isProcessing THEN processQueue(s1) ELSE s1

\* handleFloorSelect without the early return of lines 90-92
handleFloorSelect_noEarlyReturn(s, floor) ==
  LET s0 == Enter(s, "select", floor)
  IN IF floor \notin s.selectedFloors
     THEN LET s1 == [s0 EXCEPT !.selectedFloors = @ \cup {floor},
                               !.elevatorQueue = Append(@, floor)]
          IN IF ~s1.isProcessing THEN processQueue(s1) ELSE s1
     ELSE s0

\* lines 87-102
handleFloorSelect(s, floor) ==
  LET s0 == Enter(s, "select", floor)
  IN IF floor = s.currentFloor /\ ~s.isMoving /\ s.isDoorOpen
     THEN s0
     ELSE IF floor \notin s.selectedFloors
          THEN LET s1 == [s0 EXCEPT !.selectedFloors = @ \cup {floor},
                                    !.elevatorQueue = Append(@, floor)]
               IN IF ~s1.isProcessing THEN processQueue(s1) ELSE s1
          ELSE s0

\* handleCallElevator with push in place of unshift
handleCallElevator_push(s, dir) ==
  LET s0 == announceDirection(Enter(s, "call", s.outsideFloor), dir, "user")
  IN IF s.currentFloor # s.outsideFloor \/ s.isMoving
     THEN LET s1 == [s0 EXCEPT !.elevatorQueue = Append(@, s.outsideFloor)]
          IN IF ~s1.isProcessing THEN processQueue(s1) ELSE s1
     ELSE s0

\* lines 178-189
handleCallElevator(s, dir) ==
  LET s0 == announceDirection(Enter(s, "call", s.outsideFloor), dir, "user")
  IN IF s.currentFloor # s.outsideFloor \/ s.isMoving
     THEN LET s1 == [s0 EXCEPT !.elevatorQueue = <<s.outsideFloor>> \o @]
          IN IF ~s1.isProcessing THEN processQueue(s1) ELSE s1
     ELSE s0

\* lines 203-206
handleOutsideFloorSelect(s, floor) ==
  [Enter(s, "outside", floor) EXCEPT !.outsideFloor = floor]

\* handleDoorOpen without the isMoving test
handleDoorOpen_unguarded(s) ==
  announceDoor([Enter(s, "doorOpen", NULL) EXCEPT !.isDoorOpen = TRUE], "open", "user")

\* lines 192-200, the switch to the outside view: the user is taken to stand
\* at the cabin's floor.  currentView itself is not part of the model; the
\* switch back to the inside view changes nothing else.
toggleView(s) ==
  [Enter(s, "outside", s.currentFloor) EXCEPT !.outsideFloor = s.currentFloor]

\* lines 209-215
handleDoorOpen(s) ==
  LET s0 == Enter(s, "doorOpen", NULL)
  IN IF ~s.isMoving
     THEN announceDoor([s0 EXCEPT !.isDoorOpen = TRUE], "open", "user")
     ELSE s0

\* lines 217-223
handleDoorClose(s) ==
  LET s0 == Enter(s, "doorClose", NULL)
  IN IF ~s.isMoving
     THEN announceDoor([s0 EXCEPT !.isDoorOpen = FALSE], "close", "user")
     ELSE s0

\* ----------------------------------------------------------------- actions
Init ==
  /\ currentFloor = "F1"
  /\ targetFloor = NULL
  /\ isMoving = FALSE
  /\ isDoorOpen = TRUE
  /\ selectedFloors = {}
  /\ direction = NULL
  /\ outsideFloor = "F1"
  /\ elevatorQueue = <<>>
  /\ isProcessing = FALSE
  /\ procs = <<>>
  /\ phase = "idle"
  /\ log = <<>>

\* An input is given only if it leaves elevatorQueue within MaxQueue.
Given(s) == Len(s.elevatorQueue) <= MaxQueue

selectFloor ==
  \E floor \in InputFloors :
    \E s \in {handleFloorSelect(State, floor)} : Given(s) /\ Apply(s)

callFromOutside ==
  \E dir \in Directions :
    \E s \in {handleCallElevator(State, dir)} : Given(s) /\ Apply(s)

chooseOutsideFloor ==
  \E floor \in InputFloors :
    \E s \in {handleOutsideFloorSelect(State, floor)} : Given(s) /\ Apply(s)

switchToOutside ==
  \E s \in {toggleView(State)} : Given(s) /\ Apply(s)

requestDoorOpen ==
  \E s \in {handleDoorOpen(State)} : Given(s) /\ Apply(s)

requestDoorClose ==
  \E s \in {handleDoorClose(State)} : Given(s) /\ Apply(s)

\* The timer of run i, suspended at pc, elapses.
Waiting(i, pc) == i \in 1..Len(procs) /\ procs[i].pc = pc

\* await delay(1500) of line 125 is over
closeDelayElapsed ==
  \E i \in 1..Len(procs) :
    Waiting(i, "closing") /\ \E s \in {determineDirection(Wake(State), i)} : Apply(s)

\* await delay(1000) of line 136 is over
announceDelayElapsed ==
  \E i \in 1..Len(procs) :
    Waiting(i, "announced") /\ \E s \in {startMoving(Wake(State), i)} : Apply(s)

\* await delay(1200) of line 147 is over
travelDelayElapsed ==
  \E i \in 1..Len(procs) :
    Waiting(i, "travel") /\ \E s \in {passFloor(Wake(State), i)} : Apply(s)

\* await delay(500) of line 157 is over
arrivalDelayElapsed ==
  \E i \in 1..Len(procs) :
    Waiting(i, "arrived") /\ \E s \in {openDoor(Wake(State), i)} : Apply(s)

\* await delay(2000) of line 170 is over
settleDelayElapsed ==
  \E i \in 1..Len(procs) :
    Waiting(i, "settle") /\ \E s \in {nextTrip(Wake(State), i)} : Apply(s)

Next ==
  \/ selectFloor
  \/ callFromOutside
  \/ chooseOutsideFloor
  \/ switchToOutside
  \/ requestDoorOpen
  \/ requestDoorClose
  \/ closeDelayElapsed
  \/ announceDelayElapsed
  \/ travelDelayElapsed
  \/ arrivalDelayElapsed
  \/ settleDelayElapsed

Spec == Init /\ [][Next]_vars

\* ------------------------------------------------- timers and liveness
\* A step of a timer: a pending await delay(...) of a run is over.
TimerElapsed ==
  \/ closeDelayElapsed
  \/ announceDelayElapsed
  \/ travelDelayElapsed
  \/ arrivalDelayElapsed
  \/ settleDelayElapsed

\* setTimeout (line 226) fires every pending timer after its delay, and the
\* JavaScript event loop then resumes the run that awaits it: a timer that is
\* pending elapses.  The user gives finitely many inputs: from some point on
\* every step is a timer's.
FairSpec ==
  /\ Spec
  /\ WF_vars(TimerElapsed)
  /\ <>[][TimerElapsed]_vars

\* ----------------------------------------------------- the planner alone
\* The cabin idle at floor with its door open and nothing requested.
IdleAt(floor) ==
  [currentFloor |-> floor, targetFloor |-> NULL, isMoving |-> FALSE,
   isDoorOpen |-> TRUE, selectedFloors |-> {}, direction |-> NULL,
   outsideFloor |-> "F1", elevatorQueue |-> <<>>, isProcessing |-> FALSE,
   procs |-> <<>>, out |-> <<>>, phase |-> "idle", log |-> <<>>]

Floors == {FLOORS[i] : i \in 1..Len(FLOORS)}

\* One trip between any two distinct floors of FLOORS: the cabin idle at
\* from, then handleFloorSelect(to).
PlanInit ==
  \E from \in Floors : \E to \in Floors \ {from} :
    LET s == handleFloorSelect(IdleAt(from), to)
    IN /\ currentFloor = s.currentFloor
       /\ targetFloor = s.targetFloor
       /\ isMoving = s.isMoving
       /\ isDoorOpen = s.isDoorOpen
       /\ selectedFloors = s.selectedFloors
       /\ direction = s.direction
       /\ outsideFloor = s.outsideFloor
       /\ elevatorQueue = s.elevatorQueue
       /\ isProcessing = s.isProcessing
       /\ procs = s.procs
       /\ phase = s.phase
       /\ log = s.log

\* The timers of the trip, no further input.
PlanNext == TimerElapsed

PlanSpec == PlanInit /\ [][PlanNext]_vars

\* ================================================================== claims
\* The program's own state: everything but out and log.
Program(s) ==
  <<s.currentFloor, s.targetFloor, s.isMoving, s.isDoorOpen, s.selectedFloors,
    s.direction, s.outsideFloor, s.elevatorQueue, s.isProcessing, s.procs>>

IsPrefix(a, b) == Len(a) <= Len(b) /\ SubSeq(b, 1, Len(a)) = a

\* Position of the first entry of l of kind k, Len(l) + 1 if there is none.
First(l, k) ==
  IF \E i \in 1..Len(l) : l[i].k = k
  THEN CHOOSE i \in 1..Len(l) : l[i].k = k /\ \A j \in 1..(i - 1) : l[j].k # k
  ELSE Len(l) + 1

\* The last entry of the log is the input k(a): it was the last thing to
\* happen but for timers that played no cue, and it played no cue itself.
LastLogged(k, a) == log # <<>> /\ log[Len(log)] = Entry(k, a, "in")

\* ---- C1
\* C1: in every reachable state an open door implies that the cabin is not
\* moving.
C1_DoorOpenImpliesNotMoving == isDoorOpen => ~isMoving

\* ---- C2
\* C2: in every reachable state, a moving cabin has a direction and a target.
C2_MovingHasDirectionAndTarget ==
  isMoving => direction # NULL /\ targetFloor # NULL

\* The cabin is about to pass the last floor of a trip.
C2_Witness ==
  /\ isMoving
  /\ Len(procs) = 1
  /\ procs[1].pc = "travel"
  /\ Len(procs[1].floorsToPass) = 1

\* ---- C3
\* C3: elevatorQueue never holds the same floor twice.
C3_QueueDistinct ==
  \A i, j \in 1..Len(elevatorQueue) :
    i # j => elevatorQueue[i] # elevatorQueue[j]

\* ---- C4
\* C4: at most one processQueue run is active at any time, isProcessing says
\* whether one is, and the cues of the runs are those of whole trips, one
\* after the other, never those of two trips mixed.
C4_SingleFlight ==
  /\ Len(procs) <= 1
  /\ isProcessing <=> Len(procs) = 1
  /\ phase # "mixed"
  /\ ~isProcessing => phase = "idle"

\* A request was queued while a run was in its settle delay, after the cues
\* of a whole trip: it started no second run.
C4_Witness ==
  /\ isProcessing
  /\ \E floor \in InputFloors : LastLogged("select", floor) \/ LastLogged("call", floor)
  /\ Len(elevatorQueue) > 0
  /\ Len(procs) = 1
  /\ procs[1].pc = "settle"
  /\ Len(Cues(log)) >= 5

\* ---- C5
\* The cues of one trip from floor a to floor b.
ExpectedTrip(a, b) ==
  LET ia == getFloorIndex(a)
      ib == getFloorIndex(b)
      up == ib > ia
      n == IF up THEN ib - ia ELSE ia - ib
  IN <<Entry("door_closed", NULL, "run"),
       Entry("direction_changed", IF up THEN "up" ELSE "down", "run")>>
     \o [k \in 1..n |->
           Entry("floor_passed", FLOORS[(IF up THEN ia + k ELSE ia - k) + 1], "run")]
     \o <<Entry("floor_arrived", b, "run"), Entry("door_opened", NULL, "run")>>

\* The run the log follows was started by selectFloor(b) with the cabin idle
\* at another floor with its door open, and there has been no other input.
C5_Scenario ==
  /\ Len(log) >= 2
  /\ log[1].k = "idle_open"
  /\ log[2].k = "select"
  /\ log[2].a # log[1].a
  /\ Inputs(log) = <<log[2]>>

\* C5: selectFloor(B) given to a cabin idle at A # B with its door open
\* starts a run, and with no other input the run plays door_closed,
\* direction_changed, one floor_passed per floor from A (excluded) to B
\* (included), floor_arrived(B), door_opened, in this order, and ends with
\* the cabin at B and the queue empty.
C5_SingleTripCues ==
  /\ (~isProcessing /\ isDoorOpen) =>
       \A floor \in InputFloors \ {currentFloor} :
         LET s == handleFloorSelect(State, floor)
         IN /\ s.log = <<Entry("idle_open", currentFloor, "in"),
                         Entry("select", floor, "in"),
                         Entry("door_closed", NULL, "run")>>
            /\ s.out = <<Entry("door_closed", NULL, "run")>>
  /\ C5_Scenario =>
       /\ IsPrefix(Cues(log), ExpectedTrip(log[1].a, log[2].a))
       /\ ~isProcessing =>
            /\ Cues(log) = ExpectedTrip(log[1].a, log[2].a)
            /\ currentFloor = log[2].a
            /\ elevatorQueue = <<>>

\* Such a trip over two floors, finished.
C5_Witness ==
  /\ C5_Scenario
  /\ ~isProcessing
  /\ Len(Cues(log)) = 6

\* ---- C6
\* The run the log follows was started by callFromOutside(x) with the cabin
\* idle at another floor with its door open; selectFloor(y), y # x, was given
\* before floor_arrived(x), there was no other input, and the run is over.
C6_Scenario ==
  /\ Len(log) >= 2
  /\ log[1].k = "idle_open"
  /\ Len(Inputs(log)) = 2
  /\ Inputs(log)[1].k = "call"
  /\ Inputs(log)[1].a # log[1].a
  /\ Inputs(log)[2].k = "select"
  /\ Inputs(log)[2].a # Inputs(log)[1].a
  /\ First(log, "select") < First(log, "floor_arrived")
  /\ ~isProcessing

\* C6: a hall call for X answered from idle at A # X, followed before the
\* trip completes by selectFloor(Y), Y # X, serves X and then Y and ends
\* with the queue empty and the cabin at Y.
C6_HallCallThenSelect ==
  C6_Scenario =>
    /\ SelectSeq(log, LAMBDA e : e.k = "floor_arrived")
         = <<Entry("floor_arrived", Inputs(log)[1].a, "run"),
             Entry("floor_arrived", Inputs(log)[2].a, "run")>>
    /\ elevatorQueue = <<>>
    /\ currentFloor = Inputs(log)[2].a

\* ---- C7
\* C7: in every reachable state, a hall call that is accepted (changes the
\* program's state) goes to the head of the queue or, with no run in
\* progress, is the target at once; an inside selection that is accepted
\* goes to the tail of the queue or is the target at once; and a run that
\* takes its next target takes the head of the queue.
C7_QueueOrder ==
  /\ \A dir \in Directions :
       LET s == handleCallElevator(State, dir)
       IN Program(s) # Program(State) =>
            IF isProcessing
            THEN s.elevatorQueue = <<outsideFloor>> \o elevatorQueue
                 /\ s.targetFloor = targetFloor
            ELSE s.elevatorQueue = elevatorQueue /\ s.targetFloor = outsideFloor
  /\ \A floor \in InputFloors :
       LET s == handleFloorSelect(State, floor)
       IN Program(s) # Program(State) =>
            IF isProcessing
            THEN s.elevatorQueue = Append(elevatorQueue, floor)
                 /\ s.targetFloor = targetFloor
            ELSE s.elevatorQueue = elevatorQueue /\ s.targetFloor = floor
  /\ \A i \in 1..Len(procs) :
       (procs[i].pc = "settle" /\ Len(elevatorQueue) > 0) =>
         LET s == nextTrip(State, i)
         IN s.targetFloor = Head(elevatorQueue)
            /\ s.elevatorQueue = Tail(elevatorQueue)

\* A hall call is queued ahead of an inside selection.
C7_Witness ==
  /\ isProcessing
  /\ outsideFloor \notin selectedFloors
  /\ Len(elevatorQueue) = 2
  /\ elevatorQueue[1] = outsideFloor
  /\ elevatorQueue[2] \in selectedFloors
  /\ elevatorQueue[2] # outsideFloor

\* ---- C8
\* C8: in every reachable state and for every floor F, selectFloor(F) given
\* twice leaves the program in the state that selectFloor(F) given once
\* leaves it in, and the second call plays no cue.
C8_SelectIdempotent ==
  \A floor \in InputFloors :
    LET once == handleFloorSelect(State, floor)
        twice == handleFloorSelect(once, floor)
    IN Program(twice) = Program(once) /\ twice.out = <<>>

\* selectFloor(F) started a run and was given again at once.
C8_Witness ==
  /\ Len(log) = 4
  /\ log[2].k = "select"
  /\ log[3] = Entry("door_closed", NULL, "run")
  /\ log[4] = log[2]
  /\ elevatorQueue = <<>>
  /\ targetFloor = log[2].a
  /\ selectedFloors = {log[2].a}

\* ---- C9
\* C9: in every reachable state in which the cabin is idle with its door
\* open, selectFloor(currentFloor) changes nothing and plays no cue.
C9_SelectCurrentFloorNoOp ==
  (~isMoving /\ ~isProcessing /\ isDoorOpen) =>
    LET s == handleFloorSelect(State, currentFloor)
    IN Program(s) = Program(State) /\ s.out = <<>>

\* selectFloor(currentFloor) has just been given to an idle cabin with its
\* door open.
C9_Witness ==
  /\ log = <<Entry("select", currentFloor, "in")>>
  /\ ~isMoving
  /\ ~isProcessing
  /\ isDoorOpen
  /\ selectedFloors = {}
  /\ currentFloor # "F1"

\* ---- C10
\* C10: in every reachable state, requestDoorOpen and requestDoorClose
\* change nothing and play no cue if the cabin moves; if it does not, they
\* set the door open, respectively closed, change nothing else and play
\* door_opened, respectively door_closed.
C10_DoorRequests ==
  LET o == handleDoorOpen(State)
      c == handleDoorClose(State)
  IN IF isMoving
     THEN /\ Program(o) = Program(State) /\ o.out = <<>>
          /\ Program(c) = Program(State) /\ c.out = <<>>
     ELSE /\ Program(o) = Program([State EXCEPT !.isDoorOpen = TRUE])
          /\ o.out = <<Entry("door_opened", NULL, "user")>>
          /\ Program(c) = Program([State EXCEPT !.isDoorOpen = FALSE])
          /\ c.out = <<Entry("door_closed", NULL, "user")>>

\* requestDoorOpen has just been given to a moving cabin with its door
\* closed.
C10_Witness ==
  /\ LastLogged("doorOpen", NULL)
  /\ isMoving
  /\ ~isDoorOpen

\* ---- C11
\* C11: in every reachable state, callFromOutside leaves the queue and the
\* scheduler alone exactly when the cabin is at the caller's floor, idle
\* (no run in progress, not moving) with its door open; in every other
\* state it puts the caller's floor at the head of the queue and, with no
\* run in progress, starts one that takes it as its target.  The direction
\* of the call has no effect on the program's state.
C11_CallRouting ==
  /\ \A dir \in Directions :
       LET s == handleCallElevator(State, dir)
       IN IF currentFloor = outsideFloor /\ ~isProcessing /\ ~isMoving /\ isDoorOpen
          THEN Program(s) = Program(State)
          ELSE IF isProcessing
               THEN s.elevatorQueue = <<outsideFloor>> \o elevatorQueue
               ELSE s.isProcessing /\ s.targetFloor = outsideFloor
  /\ Program(handleCallElevator(State, "up"))
       = Program(handleCallElevator(State, "down"))

\* ---- C12
\* The floors a trip from a to b passes, b included, in travel order.
PlanPass(a, b) ==
  LET ia == getFloorIndex(a)
      ib == getFloorIndex(b)
      n == IF ib > ia THEN ib - ia ELSE ia - ib
  IN [k \in 1..n |-> FLOORS[(IF ib > ia THEN ia + k ELSE ia - k) + 1]]

\* C12: for every trip from a floor A to another floor B of FLOORS, the
\* direction announced and stored is up iff index(B) > index(A) and down
\* otherwise, and the floors the trip has yet to pass are, from the start of
\* the move to its end, what is left of the |index(B) - index(A)| floors from
\* A (excluded) to B (included) in travel order, the cabin being at the last
\* floor passed.
C12_Planner ==
  \A i \in 1..Len(procs) :
    LET a == procs[i].currentFloor
        b == procs[i].target
        plan == PlanPass(a, b)
        left == procs[i].floorsToPass
        passed == Len(plan) - Len(left)
    IN /\ a # b
       /\ procs[i].pc \in {"announced", "travel"} =>
            /\ direction = (IF getFloorIndex(b) > getFloorIndex(a) THEN "up" ELSE "down")
            /\ procs[i].dir = direction
       /\ procs[i].pc = "travel" =>
            /\ Len(left) >= 1
            /\ passed >= 0
            /\ left = SubSeq(plan, passed + 1, Len(plan))
            /\ currentFloor = IF passed = 0 THEN a ELSE plan[passed]
       /\ procs[i].pc \in {"arrived", "settle"} => currentFloor = b

\* The longest trip down is about to pass its first floor.
C12_Witness ==
  /\ Len(procs) = 1
  /\ procs[1].pc = "travel"
  /\ procs[1].currentFloor = "F10"
  /\ procs[1].target = "B2"
  /\ currentFloor = "F10"
  /\ procs[1].floorsToPass = <<"F9", "F8", "F7", "F6", "F5", "F4", "F3", "F2", "F1", "B1", "B2">>

\* ---- C13
\* floor has just been served: floor_arrived(floor) and door_opened have been
\* played for a trip that took floor from the queue.
Served(floor) ==
  \E i \in 1..Len(procs) : procs[i].pc = "settle" /\ procs[i].target = floor

InQueue(floor) == \E k \in 1..Len(elevatorQueue) : elevatorQueue[k] = floor

Idle ==
  /\ ~isProcessing
  /\ procs = <<>>
  /\ elevatorQueue = <<>>
  /\ targetFloor = NULL
  /\ ~isMoving

\* C13: with timers that elapse and finitely many inputs, every floor in the
\* queue is eventually served (floor_arrived and door_opened played for it),
\* the scheduler ends idle for good with the queue empty, no run in progress
\* and no target, and at no moment is a floor in the queue, or a target set,
\* with no run in progress.
C13_EveryRequestServed ==
  /\ \A floor \in InputFloors : InQueue(floor) ~> Served(floor)
  /\ <>[]Idle
  /\ [](~isProcessing => Idle)

\* A run has served two floors, the second taken from the queue, and the
\* scheduler is idle again.
C13_Witness ==
  /\ Idle
  /\ Len(Inputs(log)) = 2
  /\ Len(SelectSeq(log, LAMBDA e : e.k = "floor_arrived")) = 2
  /\ Len(SelectSeq(log, LAMBDA e : e.k = "door_opened")) = 2
  /\ log[Len(log)].k = "door_opened"

\* ---- C14
\* C14: in every trip of every run, the direction announced and stored is up
\* iff index(target) > index(currentFloor), currentFloor being the floor the
\* cabin is at when the target is acquired (it is still there during the
\* announce delay), and down otherwise.
C14_DirectionMatchesEndpoints ==
  \A i \in 1..Len(procs) :
    procs[i].pc = "announced" =>
      LET dir == IF getFloorIndex(procs[i].target) > getFloorIndex(currentFloor)
                 THEN "up" ELSE "down"
      IN /\ direction = dir
         /\ procs[i].dir = dir
         /\ (log # <<>> /\ log[Len(log)].k = "direction_changed") =>
              log[Len(log)] = Entry("direction_changed", dir, "run")

\* ---- C15
\* C15: in every trip, when floor_arrived(target) has been played, and when
\* the door has then been opened and the target deselected, the cabin is at
\* the target: currentFloor = target.
C15_ArrivedAtTarget ==
  \A i \in 1..Len(procs) :
    procs[i].pc \in {"arrived", "settle"} =>
      /\ targetFloor = procs[i].target
      /\ currentFloor = procs[i].target

\* ---- C16
\* The cabin has gone from floor a to floor b: one floor further in the
\* direction dir.
OneFloor(a, b, dir) ==
  getFloorIndex(b) = getFloorIndex(a) + (IF dir = "up" THEN 1 ELSE 0 - 1)

\* C16: every step that changes currentFloor is a step of a run (a timer of
\* its for loop) taken with isMoving true, and takes the cabin to the next
\* floor in the direction announced: no jump over a floor, no step against
\* the direction.
C16_StepsAdjacent ==
  [][currentFloor' # currentFloor =>
       /\ travelDelayElapsed
       /\ isMoving
       /\ direction \in Directions
       /\ OneFloor(currentFloor, currentFloor', direction)]_vars

\* ---- C17
\* What the start of a trip must do in a state whose door is open, and in one
\* whose door is closed: s is the state after the target has been acquired,
\* i the run.
TripStartsInOrder(s, i) ==
  /\ ~s.isMoving
  /\ IF isDoorOpen
     THEN /\ s.out = <<Entry("door_closed", NULL, "run")>>
          /\ ~s.isDoorOpen
          /\ s.procs[i].pc = "closing"
          /\ s.direction = NULL
     ELSE /\ Len(s.out) = 1
          /\ s.out[1].k = "direction_changed"
          /\ s.out[1].by = "run"
          /\ s.procs[i].pc = "announced"

\* C17: every trip of a run, the first one and the later ones, whatever the
\* door was when the run started: if the door is open when the target is
\* acquired the trip plays door_closed and waits before it plays
\* direction_changed, and only if the door is closed at that moment does it
\* go on to direction_changed at once; direction_changed comes before
\* isMoving is set.
C17_PhaseOrder ==
  /\ ~isProcessing =>
       \A floor \in InputFloors :
         LET s == handleFloorSelect(State, floor)
         IN s.isProcessing => TripStartsInOrder(s, 1)
  /\ \A i \in 1..Len(procs) :
       /\ (procs[i].pc = "settle" /\ Len(elevatorQueue) > 0) =>
            TripStartsInOrder(nextTrip(Wake(State), i), i)
       /\ procs[i].pc = "closing" =>
            LET s == determineDirection(Wake(State), i)
            IN /\ Len(s.out) = 1
               /\ s.out[1].k = "direction_changed"
               /\ s.procs[i].pc = "announced"
               /\ ~s.isMoving
       /\ procs[i].pc \in {"closing", "announced"} => ~isMoving

\* ---- C18
\* C18: a trip whose target is the floor the cabin is at plays no
\* direction_changed and leaves direction null, isMoving false and
\* currentFloor as it is, and ends with the door open: selectFloor of the
\* cabin's floor given to an idle cabin with its door closed sets no
\* direction and plays no direction_changed, and no run that has yet to move
\* shows a direction for a target that is the cabin's floor.
C18_SameFloorTrip ==
  /\ (~isProcessing /\ ~isDoorOpen /\ currentFloor \in InputFloors) =>
       LET s == handleFloorSelect(State, currentFloor)
       IN /\ \A k \in 1..Len(s.out) : s.out[k].k # "direction_changed"
          /\ s.direction = NULL
          /\ ~s.isMoving
          /\ s.currentFloor = currentFloor
  /\ \A i \in 1..Len(procs) :
       /\ (procs[i].pc \in {"closing", "announced"} /\ procs[i].target = currentFloor) =>
            direction = NULL /\ ~isMoving
       /\ procs[i].pc = "arrived" => openDoor(Wake(State), i).isDoorOpen

\* ---- C19
\* The floors in the queue and the target of a trip that has not yet opened
\* its door.
Pending ==
  {elevatorQueue[k] : k \in 1..Len(elevatorQueue)}
    \cup {procs[i].target : i \in {j \in 1..Len(procs) : procs[j].pc # "settle"}}

\* C19: in every reachable state selectedFloors is the set of the floors in
\* the queue and of the target of a trip that has not yet opened its door.
C19_SelectedMirrorsQueue == selectedFloors = Pending

\* ---- C20
\* C20 as stated: in every reachable state direction is non-null only if
\* isMoving is true, and targetFloor is null whenever no run is in progress.
C20_DirectionOnlyWhileMoving ==
  /\ direction # NULL => isMoving
  /\ ~isProcessing => targetFloor = NULL

\* C20, amended: in every reachable state direction is non-null only from
\* the announcement of a trip's direction to the trip's arrival (the announce
\* delay, with isMoving still false, and the move), and is then the direction
\* of that trip; direction and targetFloor are null whenever no run is in
\* progress.
C20_DirectionOnlyDuringTrip ==
  /\ direction # NULL =>
       \E i \in 1..Len(procs) :
         /\ procs[i].pc \in {"announced", "travel"}
         /\ procs[i].dir = direction
         /\ isMoving <=> procs[i].pc = "travel"
  /\ ~isProcessing => targetFloor = NULL /\ direction = NULL

\* A trip in its announce delay: the direction is set, the cabin has yet to
\* move.
C20_Witness ==
  /\ isProcessing
  /\ direction \in Directions
  /\ ~isMoving
  /\ targetFloor # NULL
  /\ Len(procs) = 1
  /\ procs[1].pc = "announced"

====
